---- MODULE Spec2Model ----
(***************************************************************************)
(* hpx::lcos::detail::condition and its wrapper hpx::lcos::condition       *)
(* (hpx/lcos/condition.hpp).                                               *)
(*                                                                         *)
(* A condition owns one FIFO of thread ids (queue_).  wait enqueues the    *)
(* caller's id and then yields with the state "suspended"; notify_one      *)
(* dequeues one id and sets that thread "pending"; notify_all repeats the  *)
(* dequeue until it fails.  Every call on the fifo and on the scheduler is *)
(* one atomic step; the steps of different threads interleave freely.      *)
(***************************************************************************)
EXTENDS Integers, Sequences, FiniteSets, TLC

\* Bounds of the model.
NumTasks == 4
MaxOps == 4

Tasks == 1..NumTasks

\* thread_id_type id = 0: the value of the local before a dequeue succeeds.
NoId == 0

\* hpx::error codes and messages handed to set_error.
ErrorCodes == {"bad_parameter", "no_success"}
ErrorMsgs == {"msg"}
NoFault == <<"none", "none">>

\* threads::thread_state values a function may hand back.
ThreadStates == {"unknown", "pending", "suspended"}

VARIABLES
    queue_,     \* boost::lockfree::fifo<thread_id_type> queue_
    tstate,     \* the scheduler's state of each thread
    pc,         \* where each thread stands in the call it is in
    id,         \* the local "id" of notify_one / notify_all
    \* the record of each thread's call: kept while the call runs and, once
    \* it has ended, until the next call of any thread starts
    op,         \* the call's name
    startq,     \* queue_ at the call's first step
    woken,      \* the ids the call has handed to set_state, in order
    solo,       \* no step of another call has overlapped it
    ret,        \* the threads::thread_state the call handed back
    fault,      \* the exception the call left with
    \* history of the run
    nops,       \* calls started so far
    used,       \* threads that have made a call so far
    enqlog,     \* ids in the order they were enqueued
    notified    \* per thread: set_state(id, pending) calls with its id

vars == <<queue_, tstate, pc, id, op, startq, woken, solo, ret, fault,
          nops, used, enqlog, notified>>

----------------------------------------------------------------------------
\* boost::lockfree::fifo<thread_id_type>::enqueue
enqueue(q, t) == Append(q, t)

\* boost::lockfree::fifo<thread_id_type>::dequeue(&id): whether an id was
\* taken, the id, and what is left in the fifo.
dequeue(q) ==
    IF Len(q) = 0
    THEN [ok |-> FALSE, val |-> NoId, rest |-> q]
    ELSE [ok |-> TRUE, val |-> Head(q), rest |-> Tail(q)]

\* threads::set_state(self, id, state): the scheduler's state of thread i.
set_state(ts, i, s) == [t \in Tasks |-> IF t = i THEN s ELSE ts[t]]

\* self.yield(state): the calling thread leaves the processor in that state.
yield(ts, t, s) == [ts EXCEPT ![t] = s]

InQueue(t) == \E i \in 1..Len(queue_) : queue_[i] = t

\* Number of enqueue calls made with the id of thread t.
enq(t) == Cardinality({i \in 1..Len(enqlog) : enqlog[i] = t})

\* No call of another thread is under way (a thread parked in wait has
\* finished its own steps and only awaits the scheduler).
Alone(n) == \A m \in Tasks \ {n} : pc[m] \in {"idle", "w_suspended"}

\* Thread n is running outside any call.  Threads are interchangeable, so
\* their ids are taken to be given out in the order of their first calls:
\* thread n + 1 makes no call before thread n has made one.
CanCall(n) ==
    /\ pc[n] = "idle"
    /\ tstate[n] = "active"
    /\ nops < MaxOps
    /\ n <= used + 1

\* Thread n starts the call `name`; r and f are what the call hands back
\* and throws if it ends in this very step.
Begin(n, name, r, f) ==
    LET Rec(old, new, none) ==
            [m \in Tasks |-> IF m = n THEN new
                             ELSE IF pc[m] = "idle" THEN none ELSE old[m]]
    IN
    /\ nops' = nops + 1
    /\ used' = IF n > used THEN n ELSE used
    /\ op' = Rec(op, name, "none")
    /\ startq' = Rec(startq, queue_, <<>>)
    /\ woken' = Rec(woken, <<>>, <<>>)
    /\ ret' = Rec(ret, r, "none")
    /\ fault' = Rec(fault, f, NoFault)
    /\ solo' = [m \in Tasks |-> m = n /\ Alone(n)]

----------------------------------------------------------------------------
Init ==
    /\ queue_ = <<>>
    /\ tstate = [t \in Tasks |-> "active"]
    /\ pc = [t \in Tasks |-> "idle"]
    /\ id = [t \in Tasks |-> NoId]
    /\ op = [t \in Tasks |-> "none"]
    /\ startq = [t \in Tasks |-> <<>>]
    /\ woken = [t \in Tasks |-> <<>>]
    /\ solo = [t \in Tasks |-> FALSE]
    /\ ret = [t \in Tasks |-> "none"]
    /\ fault = [t \in Tasks |-> NoFault]
    /\ nops = 0
    /\ used = 0
    /\ enqlog = <<>>
    /\ notified = [t \in Tasks |-> 0]

----------------------------------------------------------------------------
\* A wait that suspends the caller before it has enqueued anything.
wait_suspends_first(t) ==
    /\ CanCall(t)
    /\ Begin(t, "wait", "none", NoFault)
    /\ tstate' = yield(tstate, t, "suspended")
    /\ pc' = [pc EXCEPT ![t] = "w_suspended"]
    /\ UNCHANGED <<queue_, id, enqlog, notified>>

\* A wait that enqueues the caller's id twice.
wait_enqueue_twice(t) ==
    /\ CanCall(t)
    /\ Begin(t, "wait", "none", NoFault)
    /\ queue_' = enqueue(enqueue(queue_, t), t)
    /\ enqlog' = Append(enqlog, t)
    /\ pc' = [pc EXCEPT ![t] = "w_yield"]
    /\ UNCHANGED <<tstate, id, notified>>

\* detail::condition::wait, first statement: queue_.enqueue(self.get_thread_id())
wait(t) ==
    /\ CanCall(t)
    /\ Begin(t, "wait", "none", NoFault)
    /\ queue_' = enqueue(queue_, t)
    /\ enqlog' = Append(enqlog, t)
    /\ pc' = [pc EXCEPT ![t] = "w_yield"]
    /\ UNCHANGED <<tstate, id, notified>>

\* A wait that yields as pending instead of suspended.
wait_yield_pending(t) ==
    /\ pc[t] = "w_yield"
    /\ tstate' = yield(tstate, t, "pending")
    /\ pc' = [pc EXCEPT ![t] = "w_suspended"]
    /\ UNCHANGED <<queue_, id, op, startq, woken, solo, ret, fault,
                   nops, used, enqlog, notified>>

\* detail::condition::wait, second statement: self.yield(threads::suspended)
wait_yield(t) ==
    /\ pc[t] = "w_yield"
    /\ tstate' = yield(tstate, t, "suspended")
    /\ pc' = [pc EXCEPT ![t] = "w_suspended"]
    /\ UNCHANGED <<queue_, id, op, startq, woken, solo, ret, fault,
                   nops, used, enqlog, notified>>

\* The scheduler runs a parked thread again once its state is pending; the
\* yield returns and wait returns with it.
Resume(t) ==
    /\ pc[t] = "w_suspended"
    /\ tstate[t] = "pending"
    /\ tstate' = [tstate EXCEPT ![t] = "active"]
    /\ pc' = [pc EXCEPT ![t] = "idle"]
    /\ UNCHANGED <<queue_, id, op, startq, woken, solo, ret, fault,
                   nops, used, enqlog, notified>>

----------------------------------------------------------------------------
\* A notify_one that reads the oldest id and leaves it in the fifo.
notify_one_peeks(n, name, r) ==
    LET d == dequeue(queue_) IN
    /\ CanCall(n)
    /\ Begin(n, name, IF d.ok THEN "none" ELSE r, NoFault)
    /\ queue_' = queue_
    /\ id' = [id EXCEPT ![n] = d.val]
    /\ pc' = [pc EXCEPT ![n] = IF d.ok THEN "n_set" ELSE "idle"]
    /\ UNCHANGED <<tstate, enqlog, notified>>

\* A notify_one that does not test what dequeue returns.
notify_one_unchecked(n, name, r) ==
    LET d == dequeue(queue_) IN
    /\ CanCall(n)
    /\ Begin(n, name, "none", NoFault)
    /\ queue_' = d.rest
    /\ id' = [id EXCEPT ![n] = d.val]
    /\ pc' = [pc EXCEPT ![n] = "n_set"]
    /\ UNCHANGED <<tstate, enqlog, notified>>

\* The body of detail::condition::notify_one entered by thread n as the call
\* `name`:  thread_id_type id = 0; if (queue_.dequeue(&id)) ...
\* When the dequeue fails the call is over; r is what it then hands back.
notify_one_enter(n, name, r) ==
    LET d == dequeue(queue_) IN
    /\ CanCall(n)
    /\ Begin(n, name, IF d.ok THEN "none" ELSE r, NoFault)
    /\ queue_' = d.rest
    /\ id' = [id EXCEPT ![n] = d.val]
    /\ pc' = [pc EXCEPT ![n] = IF d.ok THEN "n_set" ELSE "idle"]
    /\ UNCHANGED <<tstate, enqlog, notified>>

\* detail::condition::notify_one
notify_one(n) == notify_one_enter(n, "notify_one", "none")

\* A notify_one that stays at its set_state and issues it again.
notify_one_set_again(n) ==
    /\ pc[n] = "n_set"
    /\ tstate' = set_state(tstate, id[n], "pending")
    /\ notified' = [notified EXCEPT ![id[n]] = @ + 1]
    /\ woken' = [woken EXCEPT ![n] = Append(@, id[n])]
    /\ \/ pc' = pc /\ id' = id
       \/ pc' = [pc EXCEPT ![n] = "idle"] /\ id' = [id EXCEPT ![n] = NoId]
    /\ UNCHANGED <<queue_, op, startq, solo, ret, fault, nops, used, enqlog>>

\* threads::set_state(self, id, threads::pending) in notify_one; the call
\* ends and its local id with it.  Of the callers of notify_one only
\* set_event has a result, and it ends without a return statement: the
\* thread_state it hands back is whatever the build leaves there.
notify_one_set(n) ==
    /\ pc[n] = "n_set"
    /\ tstate' = set_state(tstate, id[n], "pending")
    /\ notified' = [notified EXCEPT ![id[n]] = @ + 1]
    /\ woken' = [woken EXCEPT ![n] = Append(@, id[n])]
    /\ id' = [id EXCEPT ![n] = NoId]
    /\ pc' = [pc EXCEPT ![n] = "idle"]
    /\ IF op[n] = "set_event"
       THEN \E s \in ThreadStates : ret' = [ret EXCEPT ![n] = s]
       ELSE ret' = ret
    /\ UNCHANGED <<queue_, op, startq, solo, fault, nops, used, enqlog>>

----------------------------------------------------------------------------
\* detail::condition::notify_all: thread_id_type id = 0 and the first
\* evaluation of the loop condition queue_.dequeue(&id)
notify_all(n) ==
    LET d == dequeue(queue_) IN
    /\ CanCall(n)
    /\ Begin(n, "notify_all", "none", NoFault)
    /\ queue_' = d.rest
    /\ id' = [id EXCEPT ![n] = d.val]
    /\ pc' = [pc EXCEPT ![n] = IF d.ok THEN "a_set" ELSE "idle"]
    /\ UNCHANGED <<tstate, enqlog, notified>>

\* the loop body of notify_all: threads::set_state(self, id, threads::pending)
notify_all_set(n) ==
    /\ pc[n] = "a_set"
    /\ tstate' = set_state(tstate, id[n], "pending")
    /\ notified' = [notified EXCEPT ![id[n]] = @ + 1]
    /\ woken' = [woken EXCEPT ![n] = Append(@, id[n])]
    /\ pc' = [pc EXCEPT ![n] = "a_loop"]
    /\ UNCHANGED <<queue_, id, op, startq, solo, ret, fault, nops, used, enqlog>>

\* A notify_all written with "if" for "while": it ends after one pass.
notify_all_once(n) ==
    /\ pc[n] = "a_loop"
    /\ id' = [id EXCEPT ![n] = NoId]
    /\ pc' = [pc EXCEPT ![n] = "idle"]
    /\ UNCHANGED <<queue_, tstate, op, startq, woken, solo, ret, fault,
                   nops, used, enqlog, notified>>

\* A notify_all whose loop dequeues a second id and drops the first.
notify_all_loop_drops(n) ==
    LET d == dequeue(dequeue(queue_).rest) IN
    /\ pc[n] = "a_loop"
    /\ queue_' = d.rest
    /\ id' = [id EXCEPT ![n] = d.val]
    /\ pc' = [pc EXCEPT ![n] = IF d.ok THEN "a_set" ELSE "idle"]
    /\ UNCHANGED <<tstate, op, startq, woken, solo, ret, fault,
                   nops, used, enqlog, notified>>

\* back at the loop condition of notify_all: queue_.dequeue(&id); when it
\* fails the call ends and its local id with it
notify_all_loop(n) ==
    LET d == dequeue(queue_) IN
    /\ pc[n] = "a_loop"
    /\ queue_' = d.rest
    /\ id' = [id EXCEPT ![n] = d.val]
    /\ pc' = [pc EXCEPT ![n] = IF d.ok THEN "a_set" ELSE "idle"]
    /\ UNCHANGED <<tstate, op, startq, woken, solo, ret, fault,
                   nops, used, enqlog, notified>>

----------------------------------------------------------------------------
\* A set_event that calls notify_all.
set_event_notify_all(n) ==
    LET d == dequeue(queue_) IN
    /\ CanCall(n)
    /\ Begin(n, "set_event", "none", NoFault)
    /\ queue_' = d.rest
    /\ id' = [id EXCEPT ![n] = d.val]
    /\ pc' = [pc EXCEPT ![n] = IF d.ok THEN "a_set" ELSE "idle"]
    /\ UNCHANGED <<tstate, enqlog, notified>>

\* detail::condition::set_event: notify_one(self), and no return statement
set_event(n) ==
    \E s \in ThreadStates : notify_one_enter(n, "set_event", s)

\* detail::condition::set_error: HPX_THROW_EXCEPTION(code, msg)
set_error(n, code, msg) ==
    /\ CanCall(n)
    /\ Begin(n, "set_error", "none", <<code, msg>>)
    /\ UNCHANGED <<queue_, tstate, pc, id, enqlog, notified>>

\* lcos::condition::notify_all: impl_->notify_one(self)
condition_notify_all(n) == notify_one_enter(n, "condition_notify_all", "none")

----------------------------------------------------------------------------
Next ==
    \/ \E t \in Tasks : wait(t)
    \/ \E t \in Tasks : wait_yield(t)
    \/ \E t \in Tasks : Resume(t)
    \/ \E n \in Tasks : notify_one(n)
    \/ \E n \in Tasks : notify_one_set(n)
    \/ \E n \in Tasks : notify_all(n)
    \/ \E n \in Tasks : notify_all_set(n)
    \/ \E n \in Tasks : notify_all_loop(n)
    \/ \E n \in Tasks : set_event(n)
    \/ \E n \in Tasks, c \in ErrorCodes, m \in ErrorMsgs : set_error(n, c, m)
    \/ \E n \in Tasks : condition_notify_all(n)

Spec == Init /\ [][Next]_vars

----------------------------------------------------------------------------
\* Helpers of the properties.

\* Thread n holds a dequeued id it has not yet handed to set_state.
Holding(n) == pc[n] \in {"n_set", "a_set"}

\* Number of threads holding the id of thread t.
Held(t) == Cardinality({n \in Tasks : Holding(n) /\ id[n] = t})

\* Position in the enqueue order of the latest enqueue of the id of t.
Ticket(t) ==
    LET S == {i \in 1..Len(enqlog) : enqlog[i] = t} IN
    IF S = {} THEN 0 ELSE CHOOSE i \in S : \A j \in S : j <= i

\* The last k ids enqueued, oldest first.
LastEnqueued(k) == SubSeq(enqlog, Len(enqlog) - k + 1, Len(enqlog))

NoDuplicates(q) == \A i, j \in 1..Len(q) : q[i] = q[j] => i = j

\* The call `name` of thread n has ended and its record is still kept.
Ended(n, name) == pc[n] = "idle" /\ op[n] = name

\* This step is thread n starting the call `name`.
Starts(n, name) == pc[n] = "idle" /\ nops' = nops + 1 /\ op'[n] = name

----------------------------------------------------------------------------
\* C1: no lost wakeup.  A thread parked in wait can return only through a
\* set_state on its id, which takes a notifier holding its id, which takes
\* its id in the fifo.  So a thread that is parked in the suspended state
\* while its id is neither in the fifo nor held by any notifier stays
\* suspended forever: the claim says no such state is ever reached, in
\* particular not when the dequeue and the set_state fall between the
\* waiter's enqueue and its yield.
NoLostWakeup ==
    \A t \in Tasks :
        (pc[t] = "w_suspended" /\ tstate[t] = "suspended")
            => (InQueue(t) \/ Held(t) > 0)

\* C2: every id handed to set_state was enqueued by an earlier wait, and no
\* enqueue leads to more than one set_state: for each thread the set_state
\* calls made and those about to be made with its id never outnumber the
\* enqueues of its id, and no two notifiers hold the same id.
NotifiedAtMostOncePerWait ==
    \A t \in Tasks :
        /\ notified[t] + Held(t) <= enq(t)
        /\ Held(t) <= 1

\* C2 happens: two notify_one calls overlap, one has set its thread pending
\* and the other still holds the id of another thread.
TwoNotifyOneOverlap ==
    \E n, m \in Tasks :
        /\ n # m
        /\ Ended(n, "notify_one") /\ Len(woken[n]) = 1
        /\ op[m] = "notify_one" /\ pc[m] = "n_set"
        /\ notified[woken[n][1]] = 1

\* C3: notify_all has one capture point, its first step on the fifo, and
\* sets pending no more threads than the fifo held at that point.
NotifyAllWakesOnlyCaptured ==
    \A n \in Tasks :
        op[n] = "notify_all" => Len(woken[n]) <= Len(startq[n])

\* C4: lcos::condition::notify_all, called with k >= 2 threads registered
\* and nothing else running, sets all k pending and leaves the fifo empty.
WrapperNotifyAllWakesAll ==
    \A n \in Tasks :
        (Ended(n, "condition_notify_all") /\ solo[n] /\ Len(startq[n]) >= 2)
            => (woken[n] = startq[n] /\ queue_ = <<>>)

\* C5: detail::condition::notify_all, with nothing else running, sets
\* pending every thread that was in the fifo at its start, oldest
\* registration first, each once, and leaves the fifo empty.
NotifyAllAloneWakesAllInOrder ==
    \A n \in Tasks :
        (Ended(n, "notify_all") /\ solo[n]) =>
            /\ queue_ = <<>>
            /\ woken[n] = startq[n]
            /\ woken[n] = LastEnqueued(Len(woken[n]))
            /\ NoDuplicates(woken[n])
            /\ \A i \in 1..Len(woken[n]) :
                   tstate[woken[n][i]] \in {"pending", "active"}

\* C5 happens: a notify_all that ran alone has ended, and the fifo held at
\* least two threads when it started.
NotifyAllAloneEnded ==
    \E n \in Tasks :
        Ended(n, "notify_all") /\ solo[n] /\ Len(startq[n]) >= 2

\* C6: FIFO law of notify_one.  A notify_one that finds the fifo non-empty
\* takes exactly the oldest id and leaves the others in their order; and
\* of two threads registered one after the other, the earlier is handed to
\* set_state first: no notify_one call issues its set_state while another
\* notify_one call still holds an id that was enqueued earlier.
NotifyOneFifo ==
    [][\A n \in Tasks :
          /\ (Starts(n, "notify_one") /\ queue_ # <<>>)
                => (id'[n] = Head(queue_) /\ queue_' = Tail(queue_))
          /\ (op[n] = "notify_one" /\ pc[n] = "n_set" /\ pc'[n] = "idle")
                => \A m \in Tasks \ {n} :
                       (op[m] = "notify_one" /\ pc[m] = "n_set")
                           => Ticket(id[n]) < Ticket(id[m])
      ]_vars

\* C7: notify_one and notify_all on an empty fifo do nothing: the fifo
\* stays empty, no thread's scheduler state or position changes, nothing is
\* handed to set_state, no exception leaves the call, and the call is over.
NotifyOnEmptyIsNoOp ==
    [][\A n \in Tasks :
          (queue_ = <<>> /\ (Starts(n, "notify_one") \/ Starts(n, "notify_all")))
              => /\ queue_' = <<>>
                 /\ tstate' = tstate
                 /\ pc' = pc
                 /\ notified' = notified
                 /\ woken'[n] = <<>>
                 /\ fault'[n] = NoFault
      ]_vars

\* C7 happens: a notify_one found the fifo empty, after threads had waited
\* and been released.
NotifyOneOnEmptyEnded ==
    \E n \in Tasks :
        /\ Ended(n, "notify_one") /\ startq[n] = <<>>
        /\ enqlog # <<>>

\* C8: wait does not suspend a caller that is already runnable: a thread
\* whose id was dequeued and set pending before its yield is not put into
\* the suspended state by that yield.
WaitKeepsRunnable ==
    [][\A t \in Tasks :
          (pc[t] = "w_yield" /\ tstate[t] = "pending")
              => tstate'[t] # "suspended"
      ]_vars

\* C9: no spurious return from wait.  A thread whose id is in the fifo is
\* inside its wait call, and a thread that has returned from wait has had
\* every enqueue of its id answered by a set_state on it.
NoSpuriousReturn ==
    \A t \in Tasks :
        /\ InQueue(t) => (op[t] = "wait" /\ pc[t] \in {"w_yield", "w_suspended"})
        /\ Ended(t, "wait") => (enq(t) >= 1 /\ notified[t] = enq(t))

\* C9 happens: a thread has returned from wait while another is still
\* registered in the fifo.
WaitReturned ==
    \E t, u \in Tasks : Ended(t, "wait") /\ InQueue(u)

\* C10: set_event acts on the fifo and the threads as one notify_one call
\* does: it takes the oldest id, if any, sets that thread pending and
\* nothing else; set_error throws the fault it is given whatever the fifo
\* holds and leaves the fifo and every thread as they were.
SetEventSetErrorEffect ==
    /\ [](\A n \in Tasks :
            (op[n] \in {"notify_one", "set_event"} /\ pc[n] = "idle") =>
                /\ Len(woken[n]) <= 1
                /\ fault[n] = NoFault
                /\ solo[n] =>
                     IF startq[n] = <<>>
                     THEN woken[n] = <<>> /\ queue_ = <<>>
                     ELSE /\ woken[n] = <<Head(startq[n])>>
                          /\ queue_ = Tail(startq[n]))
    /\ [][\A n \in Tasks :
            /\ \A name \in {"notify_one", "set_event"} :
                 Starts(n, name) =>
                    /\ tstate' = tstate
                    /\ IF queue_ = <<>>
                       THEN queue_' = <<>> /\ pc'[n] = "idle"
                       ELSE /\ queue_' = Tail(queue_)
                            /\ id'[n] = Head(queue_)
                            /\ pc'[n] = "n_set"
            /\ (op[n] \in {"notify_one", "set_event"} /\ pc[n] = "n_set"
                    /\ pc'[n] # "n_set") =>
                    /\ pc'[n] = "idle"
                    /\ queue_' = queue_
                    /\ tstate' = [tstate EXCEPT ![id[n]] = "pending"]
            /\ Starts(n, "set_error") =>
                    /\ fault'[n] \in ErrorCodes \X ErrorMsgs
                    /\ queue_' = queue_
                    /\ tstate' = tstate
                    /\ pc' = pc
                    /\ notified' = notified
         ]_vars

\* C10 happens: a set_event has taken the oldest of two registered threads
\* and a set_error has thrown while the other is still in the fifo.
SetEventAndSetErrorCalled ==
    \E n, m \in Tasks :
        /\ op[n] = "set_event" /\ pc[n] = "n_set"
        /\ op[m] = "set_error" /\ fault[m] # NoFault
        /\ queue_ # <<>>

\* Number of times the id of thread t stands in the fifo.
Occurrences(t) == Cardinality({i \in 1..Len(queue_) : queue_[i] = t})

\* C11: in every reachable state the id of each thread stands at most once
\* in the fifo, also when threads call wait again after being released.
IdAtMostOnceInQueue ==
    \A t \in Tasks : Occurrences(t) <= 1

\* C11 happens: a thread that was released has called wait a second time
\* and its id is in the fifo again.
WaitedAgain ==
    \E t \in Tasks : enq(t) = 2 /\ notified[t] = 1 /\ InQueue(t)

\* C12: token conservation.  Whenever no notifier stands between its
\* dequeue and its set_state, every enqueue of a thread's id is accounted
\* for: the id is still in the fifo or set_state was issued for it once.
\* Nothing is dropped and nothing is duplicated; with notifiers in between,
\* the ids they hold make up the difference.
TokensConserved ==
    /\ (\A n \in Tasks : ~Holding(n)) =>
           \A t \in Tasks : enq(t) = Occurrences(t) + notified[t]
    /\ \A t \in Tasks : enq(t) = Occurrences(t) + Held(t) + notified[t]

\* C12 happens: no notifier holds an id, two threads have been set
\* pending, and one of them has called wait again and is back in the fifo.
ConservedAfterRewait ==
    /\ \A n \in Tasks : ~Holding(n)
    /\ \E t, u \in Tasks :
          /\ t # u
          /\ notified[u] = 1
          /\ notified[t] = 1 /\ enq(t) = 2 /\ InQueue(t)

\* C13: a wait call enqueues, then suspends, and suspends once.  A thread
\* is in the suspended state only at the yield of a wait call that has
\* enqueued its id; the step that starts wait puts the id in the fifo and
\* suspends nothing; the next step of the call is the yield, which
\* suspends; and at that yield the id of the call is in exactly one place:
\* in the fifo, in the hands of a notifier, or already set pending.
WaitEnqueuesThenSuspendsOnce ==
    /\ [](\A t \in Tasks :
            tstate[t] = "suspended" =>
                (pc[t] = "w_suspended" /\ op[t] = "wait" /\ enq(t) >= 1))
    /\ [][\A t \in Tasks :
            /\ Starts(t, "wait") =>
                  /\ pc'[t] = "w_yield"
                  /\ tstate'[t] = tstate[t]
                  /\ queue_' = Append(queue_, t)
            /\ (pc[t] = "w_yield" /\ pc'[t] # "w_yield") =>
                  /\ pc'[t] = "w_suspended"
                  /\ tstate'[t] = "suspended"
            /\ (tstate[t] # "suspended" /\ tstate'[t] = "suspended") =>
                  /\ pc[t] = "w_yield" /\ pc'[t] = "w_suspended"
                  /\ enq(t) >= 1
                  /\ Occurrences(t) + Held(t)
                        + (IF tstate[t] = "pending" THEN 1 ELSE 0) = 1
         ]_vars

\* C13 happens: a thread has suspended in wait while a notifier already
\* holds its dequeued id.
SuspendedWhileDequeued ==
    \E t \in Tasks :
        pc[t] = "w_suspended" /\ tstate[t] = "suspended" /\ Held(t) = 1

\* The ids the notify_one call of thread n has obtained so far: those it
\* has handed to set_state and the one it holds.
Obtained(n) == Len(woken[n]) + (IF pc[n] = "n_set" THEN 1 ELSE 0)

\* C14: one thread is registered and two notify_one calls overlap (the
\* records of both are kept, so the second began before the first ended,
\* and the fifo held the id when the earlier one began).  Then exactly one
\* of the calls obtains the id and issues the one set_state for it; the
\* other found the fifo empty, is over, and has obtained and set nothing.
OneOfTwoNotifyOneWins ==
    \A n, m \in Tasks :
        (/\ n # m
         /\ op[n] = "notify_one" /\ op[m] = "notify_one"
         /\ Len(enqlog) = 1
         /\ startq[n] # <<>>)
        => /\ startq[n] = enqlog
           /\ Obtained(n) = 1 /\ Obtained(m) = 0
           /\ startq[m] = <<>> /\ pc[m] = "idle" /\ id[m] = NoId
           /\ queue_ = <<>>
           /\ notified[enqlog[1]] = Len(woken[n])
           /\ pc[n] = "idle" => woken[n] = enqlog

\* C14 happens: both overlapping notify_one calls have ended, one with the
\* registered thread set pending and the other with nothing.
TwoNotifyOneOneToken ==
    \E n, m \in Tasks :
        /\ n # m
        /\ Ended(n, "notify_one") /\ Ended(m, "notify_one")
        /\ Len(enqlog) = 1
        /\ woken[n] = enqlog /\ woken[m] = <<>>

----------------------------------------------------------------------------
\* The same calls with the history of the run left alone, so that threads
\* may call without end: wait by a thread that may have waited before, and
\* notify_all.  wait_yield, Resume and notify_all_loop are as above.

\* detail::condition::wait, first statement, by a thread that may call it
\* again whenever it runs
wait_again(t) ==
    /\ pc[t] = "idle"
    /\ tstate[t] = "active"
    /\ queue_' = enqueue(queue_, t)
    /\ pc' = [pc EXCEPT ![t] = "w_yield"]
    /\ UNCHANGED <<tstate, id, op, startq, woken, solo, ret, fault,
                   nops, used, enqlog, notified>>

\* detail::condition::notify_all: thread_id_type id = 0 and the first
\* evaluation of the loop condition
notify_all_enter(n) ==
    LET d == dequeue(queue_) IN
    /\ pc[n] = "idle"
    /\ tstate[n] = "active"
    /\ queue_' = d.rest
    /\ id' = [id EXCEPT ![n] = d.val]
    /\ pc' = [pc EXCEPT ![n] = IF d.ok THEN "a_set" ELSE "idle"]
    /\ UNCHANGED <<tstate, op, startq, woken, solo, ret, fault,
                   nops, used, enqlog, notified>>

\* the loop body of notify_all: threads::set_state(self, id, threads::pending)
notify_all_body(n) ==
    /\ pc[n] = "a_set"
    /\ tstate' = set_state(tstate, id[n], "pending")
    /\ pc' = [pc EXCEPT ![n] = "a_loop"]
    /\ UNCHANGED <<queue_, id, op, startq, woken, solo, ret, fault,
                   nops, used, enqlog, notified>>

LiveNext ==
    \/ \E t \in Tasks : wait_again(t)
    \/ \E t \in Tasks : wait_yield(t)
    \/ \E t \in Tasks : Resume(t)
    \/ \E n \in Tasks : notify_all_enter(n)
    \/ \E n \in Tasks : notify_all_body(n)
    \/ \E n \in Tasks : notify_all_loop(n)

\* A thread inside a call goes on running and the scheduler does resume a
\* pending thread; whether a thread makes another call is up to it.
LiveSpec ==
    /\ Init
    /\ [][LiveNext]_vars
    /\ \A t \in Tasks :
          /\ WF_vars(wait_yield(t))
          /\ WF_vars(Resume(t))
          /\ WF_vars(notify_all_body(t))
          /\ WF_vars(notify_all_loop(t))

\* C15: every notify_all call ends, also when the threads it releases call
\* wait again as soon as they run.
NotifyAllTerminates ==
    \A n \in Tasks : (pc[n] \in {"a_set", "a_loop"}) ~> (pc[n] = "idle")

\* C16: enough notifications release every waiter.  Once every thread that
\* has enqueued its id in wait has been answered by a notify_one call (only
\* wait and notify_one are in use, each waiter has waited once, a set_state
\* was issued for each enqueue and no notifier is at work any more), the
\* fifo is empty and no waiter is left suspended: each has returned from
\* wait or is pending and about to.
EnoughNotifyOneReleaseAll ==
    (/\ \A m \in Tasks : op[m] \in {"none", "wait", "notify_one"}
     /\ \A m \in Tasks : pc[m] \notin {"n_set", "a_set", "a_loop"}
     /\ \E t \in Tasks : enq(t) = 1
     /\ \A t \in Tasks : enq(t) <= 1 /\ notified[t] = enq(t))
    => /\ queue_ = <<>>
       /\ \A t \in Tasks :
             enq(t) = 1 => ~(pc[t] = "w_suspended" /\ tstate[t] = "suspended")

====
